---------------------------- MODULE Spec2Model ----------------------------
(***************************************************************************)
(* A model of WalletAnalyzer (src/bot.py): the chain classifier, the price *)
(* oracle and its cache, the EVM token P&L engine, the Ethereum and Solana *)
(* adapters and the fan-out/fan-in batch analysis.                         *)
(*                                                                         *)
(* Conventions.  Addresses are sequences of one-character strings.  Time   *)
(* is counted in ticks, TicksPerDay ticks to a day.  Amounts are integers  *)
(* in the asset's base unit (wei, lamports, token base units); USD values  *)
(* are base units times the price.  A coroutine runs atomically between    *)
(* two network awaits, which is where asyncio may switch tasks.            *)
(***************************************************************************)
EXTENDS Integers, Sequences, FiniteSets, TLC

(***************************************************************************)
(* Bounds of the model.                                                    *)
(***************************************************************************)
MaxAddrLen == 46
MaxTxs == 2
MaxMints == 12
MaxEvents == 3

\* a day (timedelta(days=1)) in ticks
TicksPerDay == 2

(***************************************************************************)
(* Generic helpers.                                                        *)
(***************************************************************************)
Pad(n, c) == [i \in 1..n |-> c]

Min(a, b) == IF a <= b THEN a ELSE b

\* str.lower() on the characters the model uses
LowerChar(c) ==
    CASE c = "A" -> "a"
      [] c = "B" -> "b"
      [] c = "X" -> "x"
      [] OTHER -> c

Lower(s) == [i \in 1..Len(s) |-> LowerChar(s[i])]

\* str.startswith('0x')
StartsWith0x(s) == Len(s) >= 2 /\ s[1] = "0" /\ s[2] = "x"

\* The value Python's None takes in the model where a record is expected.
None == [none |-> TRUE]

IsNone(x) == "none" \in DOMAIN x

(***************************************************************************)
(* detect_chain                                                            *)
(***************************************************************************)
DetectChainNoPrefixTest(address) ==
    IF Len(address) = 42
    THEN "ethereum"
    ELSE IF Len(address) >= 32 /\ Len(address) <= 44 /\ ~StartsWith0x(address)
         THEN "solana"
         ELSE "unknown"

detect_chain(address) ==
    IF Len(address) = 42 /\ StartsWith0x(address)
    THEN "ethereum"
    ELSE IF Len(address) >= 32 /\ Len(address) <= 44 /\ ~StartsWith0x(address)
         THEN "solana"
         ELSE "unknown"

(***************************************************************************)
(* calculate_token_pnl: the EVM token position / P&L engine.               *)
(* A token transfer is a record                                            *)
(*   [timeStamp, contractAddress, tokenSymbol, value, tokenDecimal, to,    *)
(*    from]; tokenSymbol is Absent when the payload has no such key.       *)
(***************************************************************************)
Absent == "<absent>"

RECURSIVE Pow10(_)
Pow10(n) == IF n = 0 THEN 1 ELSE 10 * Pow10(n - 1)

\* now - timedelta(days=days) if days else datetime.fromtimestamp(0)
Cutoff(now, days) == IF days # 0 THEN now - days * TicksPerDay ELSE 0

\* tx.get('tokenSymbol', 'UNKNOWN')
TokenSymbolOf(tx) == IF tx.tokenSymbol = Absent THEN "UNKNOWN" ELSE tx.tokenSymbol

\* float(tx['value']) / (10 ** int(tx.get('tokenDecimal', 18)))
TokenValueOf(tx) == tx.value \div Pow10(tx.tokenDecimal)

\* tx['to'].lower() == address.lower()
IsBuy(tx, address) == Lower(tx.to) = Lower(address)

\* if tx_time < cutoff: continue
PnlSkips(tx, cutoff) == tx.timeStamp < cutoff

\* index of the position of token_addr in the dict (insertion order), 0 if none
PosIndex(positions, token_addr) ==
    IF \E k \in 1..Len(positions) : positions[k].token = token_addr
    THEN CHOOSE k \in 1..Len(positions) : positions[k].token = token_addr
    ELSE 0

NewPosition(tx) ==
    [token |-> tx.contractAddress, symbol |-> TokenSymbolOf(tx), amount |-> 0,
     buy_value |-> 0, sell_value |-> 0,
     first_trade |-> tx.timeStamp, last_trade |-> tx.timeStamp]

UpdatePositionOverwrite(pos, tx, address) ==
    LET value == TokenValueOf(tx) IN
    IF IsBuy(tx, address)
    THEN [pos EXCEPT !.amount = value, !.buy_value = value,
                     !.last_trade = tx.timeStamp]
    ELSE [pos EXCEPT !.amount = 0 - value, !.sell_value = value,
                     !.last_trade = tx.timeStamp]

\* lines 132-141: add the value to the buy or the sell side, set last_trade
UpdatePosition(pos, tx, address) ==
    LET value == TokenValueOf(tx) IN
    IF IsBuy(tx, address)
    THEN [pos EXCEPT !.amount = @ + value, !.buy_value = @ + value,
                     !.last_trade = tx.timeStamp]
    ELSE [pos EXCEPT !.amount = @ - value, !.sell_value = @ + value,
                     !.last_trade = tx.timeStamp]

\* one iteration of the loop of lines 112-149 on acc = [positions, trades]
PnlLoopBody(acc, tx, address, cutoff) ==
    IF PnlSkips(tx, cutoff)
    THEN acc
    ELSE LET k == PosIndex(acc.positions, tx.contractAddress)
             ps == IF k = 0 THEN Append(acc.positions, NewPosition(tx))
                            ELSE acc.positions
             j == IF k = 0 THEN Len(ps) ELSE k
         IN [positions |-> [ps EXCEPT ![j] = UpdatePosition(ps[j], tx, address)],
             trades |-> acc.trades + 1]

RECURSIVE PnlLoop(_, _, _, _, _)
PnlLoop(acc, token_txs, i, address, cutoff) ==
    IF i > Len(token_txs)
    THEN acc
    ELSE PnlLoop(PnlLoopBody(acc, token_txs[i], address, cutoff),
                 token_txs, i + 1, address, cutoff)

\* pnl = pos['sell_value'] - pos['buy_value']
PositionPnl(pos) == pos.sell_value - pos.buy_value

\* (pos['last_trade'] - pos['first_trade']).days
HoldDays(first, last) == (last - first) \div TicksPerDay

\* lines 151-166 on sel = [total_pnl, most_profitable]; max_profit is
\* most_profitable.pnl, and -inf while most_profitable is None
RECURSIVE SelectLoop(_, _, _)
SelectLoop(sel, positions, k) ==
    IF k > Len(positions)
    THEN sel
    ELSE LET pos == positions[k]
             pnl == PositionPnl(pos)
             better == IsNone(sel.most_profitable) \/ pnl > sel.most_profitable.pnl
         IN SelectLoop(
              [total_pnl |-> sel.total_pnl + pnl,
               most_profitable |->
                  IF better
                  THEN [token |-> pos.symbol, pnl |-> pnl,
                        hold_days |-> HoldDays(pos.first_trade, pos.last_trade)]
                  ELSE sel.most_profitable],
              positions, k + 1)

TokenPositions(token_txs, address, days, now) ==
    PnlLoop([positions |-> <<>>, trades |-> 0], token_txs, 1, address,
            Cutoff(now, days)).positions

calculate_token_pnl(token_txs, address, days, now) ==
    LET acc == PnlLoop([positions |-> <<>>, trades |-> 0], token_txs, 1, address,
                       Cutoff(now, days))
        sel == SelectLoop([total_pnl |-> 0, most_profitable |-> None],
                          acc.positions, 1)
    IN [total_pnl |-> sel.total_pnl,
        total_trades |-> acc.trades,
        most_profitable |-> sel.most_profitable,
        positions |-> Len(acc.positions)]

(***************************************************************************)
(* analyze_solana_transactions_detailed: the pure parts.                   *)
(* An enhanced transaction is [timestamp, tokenTransfers, nativeTransfers, *)
(* type]; a token transfer is [mint, tokenAmount, fromUserAccount,         *)
(* toUserAccount, symbol], symbol NoSymbol when the payload names none; a  *)
(* native transfer is [amount, fromUserAccount, toUserAccount].            *)
(* token_balances is the defaultdict as the sequence of its entries in     *)
(* insertion order; first_time / last_time are NoTime while None.          *)
(***************************************************************************)
NoTime == -1

\* Solana symbols are character sequences, as the truncated mint address is;
\* the empty one stands for a missing (None or empty) symbol
SymUnknown == <<"U", "N", "K", "N", "O", "W", "N">>
NoSymbol == <<>>

MetadataCap == 10

NewBalance(mint) ==
    [mint |-> mint, in |-> 0, out |-> 0, first_time |-> NoTime,
     last_time |-> NoTime, symbol |-> SymUnknown]

BalIndex(balances, mint) ==
    IF \E k \in 1..Len(balances) : balances[k].mint = mint
    THEN CHOOSE k \in 1..Len(balances) : balances[k].mint = mint
    ELSE 0

\* if tx_time < cutoff: continue
SolSkips(tx, cutoff) == tx.timestamp < cutoff

\* lines 262-282: one token transfer
SolTokenTransfer(balances, tr, address, tx_time) ==
    IF tr.fromUserAccount # address /\ tr.toUserAccount # address
    THEN balances
    ELSE LET k == BalIndex(balances, tr.mint)
             bs == IF k = 0 THEN Append(balances, NewBalance(tr.mint)) ELSE balances
             j == IF k = 0 THEN Len(bs) ELSE k
             b == bs[j]
             sym == IF tr.symbol # NoSymbol THEN tr.symbol ELSE b.symbol
         IN IF tr.fromUserAccount = address
            THEN [bs EXCEPT ![j] = [b EXCEPT !.out = @ + tr.tokenAmount,
                                             !.symbol = sym,
                                             !.last_time = tx_time]]
            ELSE [bs EXCEPT ![j] = [b EXCEPT !.in = @ + tr.tokenAmount,
                                             !.symbol = sym,
                                             !.first_time =
                                                 IF @ = NoTime THEN tx_time ELSE @,
                                             !.last_time = tx_time]]

RECURSIVE SolTokenTransfers(_, _, _, _, _)
SolTokenTransfers(balances, trs, i, address, tx_time) ==
    IF i > Len(trs)
    THEN balances
    ELSE SolTokenTransfers(SolTokenTransfer(balances, trs[i], address, tx_time),
                           trs, i + 1, address, tx_time)

\* lines 285-294: the native transfers of one transaction, on io = [in, out]
RECURSIVE SolNativeTransfers(_, _, _, _)
SolNativeTransfers(io, trs, i, address) ==
    IF i > Len(trs)
    THEN io
    ELSE LET tr == trs[i] IN
         SolNativeTransfers(
            IF tr.fromUserAccount = address
            THEN [io EXCEPT !.out = @ + tr.amount]
            ELSE IF tr.toUserAccount = address
                 THEN [io EXCEPT !.in = @ + tr.amount]
                 ELSE io,
            trs, i + 1, address)

\* tx_type in ['SWAP', 'TRADE']
IsSwap(tx) == tx.type \in {"SWAP", "TRADE"}

\* one iteration of the loop of lines 251-299 on
\* st = [token_balances, sol_in, sol_out, swap_count]
SolLoopBody(st, tx, address, cutoff) ==
    IF SolSkips(tx, cutoff)
    THEN st
    ELSE LET io == SolNativeTransfers([in |-> st.sol_in, out |-> st.sol_out],
                                      tx.nativeTransfers, 1, address)
         IN [token_balances |-> SolTokenTransfers(st.token_balances,
                                     tx.tokenTransfers, 1, address, tx.timestamp),
             sol_in |-> io.in,
             sol_out |-> io.out,
             swap_count |-> st.swap_count + (IF IsSwap(tx) THEN 1 ELSE 0)]

RECURSIVE SolLoop(_, _, _, _, _)
SolLoop(st, transactions, i, address, cutoff) ==
    IF i > Len(transactions)
    THEN st
    ELSE SolLoop(SolLoopBody(st, transactions[i], address, cutoff),
                 transactions, i + 1, address, cutoff)

SolAccumulate(transactions, address, days, now) ==
    SolLoop([token_balances |-> <<>>, sol_in |-> 0, sol_out |-> 0, swap_count |-> 0],
            transactions, 1, address, Cutoff(now, days))

\* lines 302-303: the mints whose symbol is still 'UNKNOWN', in dict order
RECURSIVE UnknownFrom(_, _)
UnknownFrom(balances, k) ==
    IF k > Len(balances)
    THEN <<>>
    ELSE (IF balances[k].symbol = SymUnknown /\ balances[k].mint # <<>>
          THEN <<balances[k].mint>> ELSE <<>>) \o UnknownFrom(balances, k + 1)

UnknownTokens(balances) == UnknownFrom(balances, 1)

LookupListUncapped(unknown_tokens) == unknown_tokens

\* unknown_tokens[:10]
LookupList(unknown_tokens) == SubSeq(unknown_tokens, 1, Min(Len(unknown_tokens), MetadataCap))

\* mint_address[:6] + '...'
Truncated(mint) == SubSeq(mint, 1, Min(Len(mint), 6)) \o <<".", ".", ".">>

SolEligibleAny(balance) == TRUE

\* ... and balance['in'] > 0
SolEligible(balance) == balance.in > 0

\* profit = balance['in'] - balance['out']
SolProfit(balance) == balance.in - balance.out

\* lines 312-324 on best (None, or the record of the best token so far)
RECURSIVE SolSelectLoop(_, _, _)
SolSelectLoop(best, balances, k) ==
    IF k > Len(balances)
    THEN best
    ELSE LET b == balances[k]
             profit == SolProfit(b)
             better == (IsNone(best) \/ profit > best.pnl) /\ SolEligible(b)
         IN SolSelectLoop(
              IF better
              THEN [token |-> b.symbol, pnl |-> profit,
                    hold_days |-> IF b.first_time # NoTime /\ b.last_time # NoTime
                                  THEN HoldDays(b.first_time, b.last_time)
                                  ELSE 0]
              ELSE best,
              balances, k + 1)

SolMostProfitable(balances) == SolSelectLoop(None, balances, 1)

\* len([b for b in token_balances.values() if b['in'] > 0])
ActiveTokens(balances) == Cardinality({k \in 1..Len(balances) : balances[k].in > 0})

\* lines 327-339: the dict the detailed analysis returns
DetailedResult(st, price) ==
    [sol_pnl |-> st.sol_in - st.sol_out,
     sol_pnl_usd |-> (st.sol_in - st.sol_out) * price,
     swap_count |-> st.swap_count,
     most_profitable |-> SolMostProfitable(st.token_balances),
     active_tokens |-> ActiveTokens(st.token_balances)]

(***************************************************************************)
(* The state.                                                              *)
(*   addresses, period_days  the arguments of analyze_multiple_wallets     *)
(*                           (period_days = 0 stands for None)             *)
(*   helius       whether HELIUS_API_KEY is set                            *)
(*   task         per address, the locals of its analyze_wallet coroutine, *)
(*                the kind of response its optional fetches received and   *)
(*                the stages of the requests it has sent                   *)
(*   price_cache  self.price_cache: key -> price, NotCached when absent    *)
(*   upstream     per cache key, the price requests sent so far            *)
(*   finished     the task indices in the order the tasks completed        *)
(*   results      what analyze_multiple_wallets returned, Pending before   *)
(*   arg, out     input and output of the pure functions applied on their  *)
(*                own                                                      *)
(***************************************************************************)
VARIABLES addresses, period_days, helius, task, price_cache, upstream,
          finished, results, arg, out

vars == <<addresses, period_days, helius, task, price_cache, upstream,
          finished, results, arg, out>>

batchVars == <<addresses, period_days, helius, task, price_cache, upstream,
               finished, results>>

NotCached == -1

CacheKeys == {"eth_None", "sol_None"}

\* an error result: {'error': msg}
ErrorResult(msg) == [kind |-> "error", error |-> msg]

IsError(r) == r.kind = "error"

InitTask(address) ==
    [pc |-> "start", address |-> address, inflight |-> "none", meta_calls |-> 0,
     transactions |-> <<>>, token_txs |-> <<>>, eth_balance |-> 0,
     sol_balance |-> 0, signatures |-> <<>>,
     now |-> 0, price |-> 0, price_resp |-> "none",
     now_d |-> 0, price2 |-> 0, price2_resp |-> "none",
     st |-> None, unknown_tokens |-> <<>>, lookups |-> <<>>, li |-> 0,
     token_resp |-> "none", bal_resp |-> "none", feed_resp |-> "none",
     stages |-> <<>>, result |-> None]

\* a step works on ctx = [t, cache, up]: the task's locals, the price cache
\* and the request counters
Ctx(i) == [t |-> task[i], cache |-> price_cache, up |-> upstream]

\* the stage of the analysis a request belongs to
StageOf(call) ==
    CASE call = "getBalance" -> "balance"
      [] call \in {"jupiter", "getAsset"} -> "metadata"
      [] OTHER -> call

\* the coroutine sends a request and suspends; meta_calls counts the calls of
\* get_solana_token_metadata, each of which starts with the token-list request;
\* stages lists the stages of the requests sent so far, in the order sent
Issue(t, call) ==
    [t EXCEPT !.inflight = call,
              !.meta_calls = IF call = "jupiter" THEN @ + 1 ELSE @,
              !.stages = IF @ # <<>> /\ @[Len(@)] = StageOf(call)
                         THEN @ ELSE Append(@, StageOf(call))]

Return(ctx, r) == [ctx EXCEPT !.t.pc = "done", !.t.inflight = "none", !.t.result = r]

(***************************************************************************)
(* analyze_ethereum_wallet                                                 *)
(***************************************************************************)
RECURSIVE SumValues(_, _)
SumValues(txs, k) == IF k > Len(txs) THEN 0 ELSE txs[k].value + SumValues(txs, k + 1)

\* datetime.fromtimestamp(int(tx['timeStamp'])) > cutoff
AdapterKeeps(tx, cutoff) == tx.timeStamp > cutoff

PeriodTxs(txs, cutoff) == LET Keep(tx) == AdapterKeeps(tx, cutoff) IN SelectSeq(txs, Keep)

\* sum(int(tx['value']) for tx in period_txs if tx['to'].lower() == address.lower())
EthIn(period_txs, address) ==
    LET ToMe(tx) == Lower(tx.to) = Lower(address) IN SumValues(SelectSeq(period_txs, ToMe), 1)

\* sum(int(tx['value']) for tx in period_txs if tx['from'].lower() == address.lower())
EthOut(period_txs, address) ==
    LET FromMe(tx) == Lower(tx.from) = Lower(address) IN SumValues(SelectSeq(period_txs, FromMe), 1)

\* lines 370-400; now1 is the clock read at line 370, now2 the one read in
\* calculate_token_pnl at line 106
EthResult(t, days, price, now1, now2) ==
    LET cutoff == Cutoff(now1, days)
        period_txs == PeriodTxs(t.transactions, cutoff)
        period_token_txs == PeriodTxs(t.token_txs, cutoff)
        eth_in == EthIn(period_txs, t.address)
        eth_out == EthOut(period_txs, t.address)
    IN [kind |-> "ethereum",
        address |-> t.address,
        last_active |-> IF t.transactions # <<>> THEN t.transactions[1].timeStamp ELSE NoTime,
        last_trade |-> IF t.token_txs # <<>> THEN t.token_txs[1].timeStamp ELSE NoTime,
        current_balance |-> t.eth_balance,
        current_balance_usd |-> t.eth_balance * price,
        total_transactions |-> Len(period_txs),
        total_token_transfers |-> Len(period_token_txs),
        eth_pnl |-> eth_in - eth_out,
        eth_pnl_usd |-> (eth_in - eth_out) * price,
        token_pnl |-> calculate_token_pnl(period_token_txs, t.address, days, now2),
        period_days |-> days]

(***************************************************************************)
(* The price oracle: get_eth_price / get_sol_price (timestamp = None, as   *)
(* every caller passes).  A price response is [kind, usd] with kind        *)
(*   "ok"         status 200, the price field present                      *)
(*   "nofield"    status 200, the price field missing: .get(..., 0)        *)
(*   "non200"     another status                                           *)
(*   "exception"  the request or the decoding raised                       *)
(***************************************************************************)
\* if cache_key in self.price_cache
PriceCached(cache, key) == cache[key] # NotCached

\* the value the call returns for a response
PriceReturned(resp) == IF resp.kind = "ok" THEN resp.usd ELSE 0

\* self.price_cache[cache_key] = price, only under status 200
PriceCacheAfter(cache, key, resp) ==
    IF resp.kind \in {"ok", "nofield"}
    THEN [cache EXCEPT ![key] = PriceReturned(resp)]
    ELSE cache

PriceLookupNoCache(ctx, key) == [hit |-> FALSE, price |-> 0]

\* lines 42-44 / 71-73: the cache test at the head of the call
PriceLookup(ctx, key) ==
    IF PriceCached(ctx.cache, key)
    THEN [hit |-> TRUE, price |-> ctx.cache[key]]
    ELSE [hit |-> FALSE, price |-> 0]

\* the request of line 54 / 83 goes out and the coroutine suspends at pc
PriceRequest(ctx, key, pc) ==
    [ctx EXCEPT !.t = [Issue(@, "price") EXCEPT !.pc = pc],
                !.up[key] = @ + 1]

\* except Exception as e: return {'error': str(e)}  (lines 402-404, 462-464)
Except(ctx) == Return(ctx, ErrorResult("exception"))

\* lines 379-400 once the price is known
EthFinish(ctx, days, price, how, now2) ==
    Return([ctx EXCEPT !.t.price = price, !.t.price_resp = how],
           EthResult(ctx.t, days, price, ctx.t.now, now2))

\* lines 350-358: the transaction list arrived
EthOnTx(ctx, resp) ==
    CASE resp.kind = "exception" -> Except(ctx)
      [] resp.kind = "status0" -> Return(ctx, ErrorResult("Failed to fetch transactions"))
      [] OTHER -> [ctx EXCEPT !.t = [Issue(@, "tokentx") EXCEPT
                                        !.transactions = resp.result,
                                        !.pc = "eth_token"]]

\* lines 359-364: the token transfer list arrived
EthOnToken(ctx, resp) ==
    CASE resp.kind = "exception" -> Except([ctx EXCEPT !.t.token_resp = resp.kind])
      [] OTHER -> [ctx EXCEPT !.t = [Issue(@, "balance") EXCEPT
                                        !.token_txs = IF resp.kind = "ok"
                                                      THEN resp.result ELSE <<>>,
                                        !.token_resp = resp.kind,
                                        !.pc = "eth_bal"]]

\* lines 365-379: the balance arrived; the clock is read, get_eth_price is
\* called and either returns from the cache or sends its request
EthOnBalance(ctx, resp, days, now1, now2) ==
    CASE resp.kind = "exception" -> Except([ctx EXCEPT !.t.bal_resp = resp.kind])
      [] OTHER ->
          LET c1 == [ctx EXCEPT !.t.eth_balance = IF resp.kind = "ok"
                                                  THEN resp.result ELSE 0,
                                !.t.bal_resp = resp.kind,
                                !.t.now = now1]
              look == PriceLookup(c1, "eth_None")
          IN IF look.hit
             THEN EthFinish(c1, days, look.price, "cache", now2)
             ELSE PriceRequest(c1, "eth_None", "eth_price")

EthOnPriceUncaught(ctx, resp, days, now2) ==
    IF resp.kind = "exception"
    THEN Except([ctx EXCEPT !.t.price_resp = resp.kind])
    ELSE EthFinish([ctx EXCEPT !.cache = PriceCacheAfter(@, "eth_None", resp)],
                   days, PriceReturned(resp), resp.kind, now2)

\* lines 83-95 and 380-400: the price response arrived
EthOnPrice(ctx, resp, days, now2) ==
    EthFinish([ctx EXCEPT !.cache = PriceCacheAfter(@, "eth_None", resp)],
              days, PriceReturned(resp), resp.kind, now2)

(***************************************************************************)
(* analyze_solana_wallet and the awaits of                                 *)
(* analyze_solana_transactions_detailed and get_solana_token_metadata      *)
(***************************************************************************)
\* datetime.fromtimestamp(sig.get('blockTime', 0)) > cutoff
SigKeeps(sig, cutoff) == sig.blockTime > cutoff

PeriodSigs(sigs, cutoff) == LET Keep(sig) == SigKeeps(sig, cutoff) IN SelectSeq(sigs, Keep)

\* lines 437-460; detailed is None or the dict of the detailed analysis, whose
\* keys the result carries only when it is not None
SolResult(t, days, detailed) ==
    [kind |-> "solana",
     address |-> t.address,
     last_active |-> IF t.signatures # <<>> THEN t.signatures[1].blockTime ELSE NoTime,
     current_balance |-> t.sol_balance,
     current_balance_usd |-> t.sol_balance * t.price,
     total_transactions |-> Len(PeriodSigs(t.signatures, Cutoff(t.now, days))),
     period_days |-> days,
     detailed |-> detailed]

SolFinish(ctx, days, detailed) == Return(ctx, SolResult(ctx.t, days, detailed))

\* lines 326-339: the price is known, the detailed analysis returns
SolDetailedDone(ctx, days, price, how) ==
    SolFinish([ctx EXCEPT !.t.price2 = price, !.t.price2_resp = how],
              days, DetailedResult(ctx.t.st, price))

\* line 327: get_sol_price inside the detailed analysis
SolPrice2(ctx, days) ==
    LET look == PriceLookup(ctx, "sol_None") IN
    IF look.hit
    THEN SolDetailedDone(ctx, days, look.price, "cache")
    ELSE PriceRequest(ctx, "sol_None", "sol_price2")

SolOnPrice2(ctx, resp, days) ==
    SolDetailedDone([ctx EXCEPT !.cache = PriceCacheAfter(@, "sol_None", resp)],
                    days, PriceReturned(resp), resp.kind)

\* token_balances[mint]['symbol'] = symbol, then the next mint of the loop of
\* line 307 or, after the last, the rest of the analysis
SolSymbolSet(ctx, symbol, days) ==
    LET t == ctx.t
        mint == t.lookups[t.li]
        k == BalIndex(t.st.token_balances, mint)
        c1 == [ctx EXCEPT !.t.st.token_balances[k].symbol = symbol]
    IN IF t.li < Len(t.lookups)
       THEN [c1 EXCEPT !.t = [Issue(@, "jupiter") EXCEPT !.li = @ + 1, !.pc = "sol_jup"]]
       ELSE SolPrice2(c1, days)

\* get_solana_token_metadata, lines 181-187: the token list answered
SolOnJupiter(ctx, resp, days) ==
    CASE resp.kind = "found" -> SolSymbolSet(ctx, resp.symbol, days)
      [] resp.kind = "exception" ->
            SolSymbolSet(ctx, Truncated(ctx.t.lookups[ctx.t.li]), days)
      [] OTHER -> [ctx EXCEPT !.t = [Issue(@, "getAsset") EXCEPT !.pc = "sol_das"]]

\* get_solana_token_metadata, lines 198-213: the asset call answered
SolOnDas(ctx, resp, days) ==
    CASE resp.kind = "found" -> SolSymbolSet(ctx, resp.symbol, days)
      [] OTHER -> SolSymbolSet(ctx, Truncated(ctx.t.lookups[ctx.t.li]), days)

\* lines 234-309: the enhanced feed answered
SolOnFeed(ctx, resp, days) ==
    IF resp.kind # "ok" \/ resp.result = <<>>
    THEN SolFinish([ctx EXCEPT !.t.feed_resp = IF resp.kind = "ok" THEN "empty"
                                               ELSE resp.kind],
                   days, None)
    ELSE LET st == SolAccumulate(resp.result, ctx.t.address, days, ctx.t.now_d)
             unknown_tokens == UnknownTokens(st.token_balances)
             lookups == LookupList(unknown_tokens)
             c1 == [ctx EXCEPT !.t.st = st, !.t.unknown_tokens = unknown_tokens,
                               !.t.lookups = lookups, !.t.feed_resp = "ok"]
         IN IF lookups # <<>>
            THEN [c1 EXCEPT !.t = [Issue(@, "jupiter") EXCEPT !.li = 1, !.pc = "sol_jup"]]
            ELSE SolPrice2(c1, days)

SolDetailedStartNoKeyTest(ctx, days, key_set, now_d) ==
    [ctx EXCEPT !.t = [Issue(@, "feed") EXCEPT !.now_d = now_d, !.pc = "sol_feed"]]

\* lines 439 and 216-234: the detailed analysis starts
SolDetailedStart(ctx, days, key_set, now_d) ==
    IF ~key_set
    THEN SolFinish(ctx, days, None)
    ELSE [ctx EXCEPT !.t = [Issue(@, "feed") EXCEPT !.now_d = now_d, !.pc = "sol_feed"]]

SolAfterPrice1(ctx, days, key_set, price, how, now_d) ==
    SolDetailedStart([ctx EXCEPT !.t.price = price, !.t.price_resp = how],
                     days, key_set, now_d)

\* lines 417-423: getBalance answered
SolOnBalance(ctx, resp) ==
    CASE resp.kind = "exception" -> Except(ctx)
      [] OTHER -> [ctx EXCEPT !.t = [Issue(@, "signatures") EXCEPT
                                        !.sol_balance = resp.result,
                                        !.pc = "sol_sigs"]]

\* lines 425-439: getSignaturesForAddress answered
SolOnSigs(ctx, resp, days, key_set, now1, now_d) ==
    CASE resp.kind = "exception" -> Except(ctx)
      [] OTHER ->
          LET c1 == [ctx EXCEPT !.t.signatures = resp.result, !.t.now = now1]
              look == PriceLookup(c1, "sol_None")
          IN IF look.hit
             THEN SolAfterPrice1(c1, days, key_set, look.price, "cache", now_d)
             ELSE PriceRequest(c1, "sol_None", "sol_price1")

SolOnPrice1(ctx, resp, days, key_set, now_d) ==
    SolAfterPrice1([ctx EXCEPT !.cache = PriceCacheAfter(@, "sol_None", resp)],
                   days, key_set, PriceReturned(resp), resp.kind, now_d)

(***************************************************************************)
(* analyze_wallet and analyze_multiple_wallets                             *)
(***************************************************************************)
StartSignaturesFirst(ctx) ==
    LET chain == detect_chain(ctx.t.address) IN
    CASE chain = "ethereum" -> [ctx EXCEPT !.t = [Issue(@, "txlist") EXCEPT !.pc = "eth_tx"]]
      [] chain = "solana" -> [ctx EXCEPT !.t = [Issue(@, "signatures") EXCEPT !.pc = "sol_sigs"]]
      [] OTHER -> Return(ctx, ErrorResult("Unknown chain or invalid address"))

\* lines 466-474, up to the first await of the adapter
Start(ctx) ==
    LET chain == detect_chain(ctx.t.address) IN
    CASE chain = "ethereum" -> [ctx EXCEPT !.t = [Issue(@, "txlist") EXCEPT !.pc = "eth_tx"]]
      [] chain = "solana" -> [ctx EXCEPT !.t = [Issue(@, "getBalance") EXCEPT !.pc = "sol_bal"]]
      [] OTHER -> Return(ctx, ErrorResult("Unknown chain or invalid address"))

\* what the await of line 478 produced: nothing yet, a list, or an exception
Pending == [state |-> "pending", list |-> <<>>]
Raised == [state |-> "raised", list |-> <<>>]
Returned(list) == [state |-> "returned", list |-> list]

GatherInCompletionOrder(tasks, done_order) ==
    IF \E i \in DOMAIN tasks : tasks[i].pc = "raised"
    THEN Raised
    ELSE Returned([k \in 1..Len(done_order) |-> tasks[done_order[k]].result])

\* asyncio.gather(*tasks): the results in the order of the arguments, or the
\* first exception a task raised
Gather(tasks, done_order) ==
    IF \E i \in DOMAIN tasks : tasks[i].pc = "raised"
    THEN Raised
    ELSE Returned([i \in DOMAIN tasks |-> tasks[i].result])

(***************************************************************************)
(* The actions: one per await at which a coroutine resumes.  W is the      *)
(* world: for each request the responses the provider may give, and the    *)
(* values datetime.now() may return (a task's later reads are not earlier  *)
(* than its earlier ones).                                                 *)
(***************************************************************************)
Apply(i, ctx) ==
    /\ task' = [task EXCEPT ![i] = ctx.t]
    /\ price_cache' = ctx.cache
    /\ upstream' = ctx.up
    /\ finished' = IF ctx.t.pc \in {"done", "raised"} THEN Append(finished, i) ELSE finished
    /\ UNCHANGED <<addresses, period_days, helius, results, arg, out>>

NowsFrom(W, n) == {m \in W.nows : m >= n}

StartTask(i) ==
    /\ i \in DOMAIN task
    /\ task[i].pc = "start"
    /\ Apply(i, Start(Ctx(i)))

EthRecvTx(i, W) ==
    /\ i \in DOMAIN task
    /\ task[i].pc = "eth_tx"
    /\ \E resp \in W.txlist : Apply(i, EthOnTx(Ctx(i), resp))

EthRecvToken(i, W) ==
    /\ i \in DOMAIN task
    /\ task[i].pc = "eth_token"
    /\ \E resp \in W.tokentx : Apply(i, EthOnToken(Ctx(i), resp))

EthRecvBalance(i, W) ==
    /\ i \in DOMAIN task
    /\ task[i].pc = "eth_bal"
    /\ \E resp \in W.balance, now1 \in NowsFrom(W, task[i].now) :
         \E now2 \in NowsFrom(W, now1) :
            Apply(i, EthOnBalance(Ctx(i), resp, period_days, now1, now2))

EthRecvPrice(i, W) ==
    /\ i \in DOMAIN task
    /\ task[i].pc = "eth_price"
    /\ \E resp \in W.price, now2 \in NowsFrom(W, task[i].now) :
         Apply(i, EthOnPrice(Ctx(i), resp, period_days, now2))

SolRecvBalance(i, W) ==
    /\ i \in DOMAIN task
    /\ task[i].pc = "sol_bal"
    /\ \E resp \in W.solbalance : Apply(i, SolOnBalance(Ctx(i), resp))

SolRecvSigs(i, W) ==
    /\ i \in DOMAIN task
    /\ task[i].pc = "sol_sigs"
    /\ \E resp \in W.sigs, now1 \in NowsFrom(W, task[i].now) :
         \E now_d \in NowsFrom(W, now1) :
            Apply(i, SolOnSigs(Ctx(i), resp, period_days, helius, now1, now_d))

SolRecvPrice1(i, W) ==
    /\ i \in DOMAIN task
    /\ task[i].pc = "sol_price1"
    /\ \E resp \in W.price, now_d \in NowsFrom(W, task[i].now) :
         Apply(i, SolOnPrice1(Ctx(i), resp, period_days, helius, now_d))

SolRecvFeed(i, W) ==
    /\ i \in DOMAIN task
    /\ task[i].pc = "sol_feed"
    /\ \E resp \in W.feed : Apply(i, SolOnFeed(Ctx(i), resp, period_days))

SolRecvJupiter(i, W) ==
    /\ i \in DOMAIN task
    /\ task[i].pc = "sol_jup"
    /\ \E resp \in W.meta : Apply(i, SolOnJupiter(Ctx(i), resp, period_days))

SolRecvDas(i, W) ==
    /\ i \in DOMAIN task
    /\ task[i].pc = "sol_das"
    /\ \E resp \in W.meta : Apply(i, SolOnDas(Ctx(i), resp, period_days))

SolRecvPrice2(i, W) ==
    /\ i \in DOMAIN task
    /\ task[i].pc = "sol_price2"
    /\ \E resp \in W.price : Apply(i, SolOnPrice2(Ctx(i), resp, period_days))

\* line 478-479: every task has completed (or one has raised)
ReturnBatch ==
    /\ results = Pending
    /\ \/ \A i \in DOMAIN task : task[i].pc = "done"
       \/ \E i \in DOMAIN task : task[i].pc = "raised"
    /\ results' = Gather(task, finished)
    /\ UNCHANGED <<addresses, period_days, helius, task, price_cache, upstream,
                   finished, arg, out>>

\* the state after analyze_multiple_wallets created its task list (line 477)
InitBatch(batches, periods, keys) ==
    /\ addresses \in batches
    /\ period_days \in periods
    /\ helius \in keys
    /\ task = [i \in DOMAIN addresses |-> InitTask(addresses[i])]
    /\ price_cache = [k \in CacheKeys |-> NotCached]
    /\ upstream = [k \in CacheKeys |-> 0]
    /\ finished = <<>>
    /\ results = Pending
    /\ arg = None
    /\ out = None

(***************************************************************************)
(* The data of the worlds.                                                 *)
(***************************************************************************)
EthLower == <<"0", "x">> \o Pad(40, "a")
EthMixed == <<"0", "x">> \o Pad(40, "A")
EthOther == <<"0", "x">> \o Pad(40, "b")
SolA == Pad(44, "S")
SolOther == Pad(44, "T")
Malformed == <<"0", "x">> \o Pad(41, "a")

\* the positions of a batch
Slots == {1, 2, 3}

Periods == {0, 1}
ClockStart == TicksPerDay + 1
\* the readings of datetime.now(): a later one may be a day's fraction ahead
Nows == {ClockStart, ClockStart + 2}
Times == 0..TicksPerDay

Resp(kind, result) == [kind |-> kind, result |-> result]

IsDesc(s) == \A k \in 1..(Len(s) - 1) : s[k].timeStamp >= s[k + 1].timeStamp

SeqsUpTo(S, n) == UNION {[1..m -> S] : m \in 0..n}

\* native transactions of the queried address EthMixed, as the explorer lists
\* them: inbound (4 units), outbound (1 unit), to itself (2 units)
NativeTxs ==
    {[timeStamp |-> ts, value |-> 4, to |-> EthLower, from |-> EthOther] : ts \in Times}
    \cup {[timeStamp |-> ts, value |-> 1, to |-> EthOther, from |-> EthMixed] : ts \in Times}
    \cup {[timeStamp |-> ts, value |-> 2, to |-> EthLower, from |-> EthLower] : ts \in Times}

TokenTx(ts, token, sym, value, dec, to, from) ==
    [timeStamp |-> ts, contractAddress |-> token, tokenSymbol |-> sym,
     value |-> value, tokenDecimal |-> dec, to |-> to, from |-> from]

EthTokenTxs ==
    {TokenTx(ts, "T1", "AAA", 50, 1, EthLower, EthOther) : ts \in Times}
    \cup {TokenTx(ts, "T1", Absent, 3, 0, EthOther, EthLower) : ts \in Times}

PriceResps ==
    {[kind |-> "ok", usd |-> 2000], [kind |-> "ok", usd |-> 2500],
     [kind |-> "nofield", usd |-> 0], [kind |-> "non200", usd |-> 0],
     [kind |-> "exception", usd |-> 0]}

Failures == {Resp("status0", <<>>), Resp("exception", <<>>)}

EthWorld ==
    [txlist |-> {Resp("ok", l) : l \in {s \in SeqsUpTo(NativeTxs, MaxTxs) : IsDesc(s)}}
                \cup Failures,
     tokentx |-> {Resp("ok", l) : l \in SeqsUpTo(EthTokenTxs, 1)} \cup Failures,
     balance |-> {Resp("ok", 3), Resp("status0", 0), Resp("exception", 0)},
     price |-> PriceResps,
     nows |-> Nows]

\* enhanced transactions of the queried address SolA: SOL received (4 units,
\* a swap), SOL sent (1 unit, no swap), a token received without a symbol
NativeTr(amount, from, to) == [amount |-> amount, fromUserAccount |-> from, toUserAccount |-> to]

TokenTr(mint, amount, from, to, symbol) ==
    [mint |-> mint, tokenAmount |-> amount, fromUserAccount |-> from,
     toUserAccount |-> to, symbol |-> symbol]

SolTx(ts, tokenTransfers, nativeTransfers, type) ==
    [timestamp |-> ts, tokenTransfers |-> tokenTransfers,
     nativeTransfers |-> nativeTransfers, type |-> type]

MintChars == <<"0", "1", "2", "3", "4", "5", "6", "7", "8", "9",
               "a", "b", "c", "d", "e", "f", "g", "h", "i", "j">>

\* the k-th mint address
Mint(k) == <<"M", "i", "n", "t", MintChars[k]>> \o Pad(3, "z")

SolTxs ==
    {SolTx(ts, <<>>, <<NativeTr(4, SolOther, SolA)>>, "SWAP") : ts \in Times}
    \cup {SolTx(ts, <<TokenTr(Mint(1), 7, SolOther, SolA, NoSymbol)>>,
                <<NativeTr(1, SolA, SolOther)>>, "TRANSFER") : ts \in Times}

IsDescSol(s) == \A k \in 1..(Len(s) - 1) : s[k].timestamp >= s[k + 1].timestamp

IsDescSig(s) == \A k \in 1..(Len(s) - 1) : s[k].blockTime >= s[k + 1].blockTime

Sigs == {[blockTime |-> ts] : ts \in Times}

SymTok == <<"T", "O", "K">>
SymSym == <<"S", "Y", "M">>

MetaResps ==
    {[kind |-> "found", symbol |-> SymTok], [kind |-> "notfound", symbol |-> NoSymbol],
     [kind |-> "exception", symbol |-> NoSymbol]}

FeedFailures == {Resp("non200", <<>>), Resp("exception", <<>>), Resp("ok", <<>>)}

SolWorld ==
    [solbalance |-> {Resp("ok", 5), Resp("exception", 0)},
     sigs |-> {Resp("ok", l) : l \in {s \in SeqsUpTo(Sigs, MaxTxs) : IsDescSig(s)}}
              \cup {Resp("exception", <<>>)},
     feed |-> {Resp("ok", l) : l \in {s \in SeqsUpTo(SolTxs, MaxTxs) : IsDescSol(s)}}
              \cup FeedFailures,
     meta |-> MetaResps,
     price |-> PriceResps,
     nows |-> Nows]

WalletWorld == [k \in DOMAIN EthWorld \cup DOMAIN SolWorld |->
                  IF k \in DOMAIN EthWorld THEN EthWorld[k] ELSE SolWorld[k]]

\* a feed of one transaction in which the address receives n tokens, none of
\* which carries a symbol
RECURSIVE ManyTransfers(_)
ManyTransfers(n) ==
    IF n = 0 THEN <<>>
    ELSE Append(ManyTransfers(n - 1), TokenTr(Mint(n), 1, SolOther, SolA, NoSymbol))

ManyFeed(n) == <<SolTx(TicksPerDay, ManyTransfers(n), <<>>, "SWAP")>>

MetaWorld ==
    [solbalance |-> {Resp("ok", 5)},
     sigs |-> {Resp("ok", <<>>)},
     feed |-> {Resp("ok", ManyFeed(n)) : n \in 0..MaxMints},
     meta |-> MetaResps,
     price |-> {[kind |-> "ok", usd |-> 2000]},
     nows |-> {ClockStart}]

(***************************************************************************)
(* SpecWallet: the analysis of one address, Ethereum or Solana, with every *)
(* response of every provider.                                             *)
(***************************************************************************)
InitWallet == InitBatch({<<EthMixed>>, <<SolA>>}, Periods, {TRUE, FALSE})

NextWallet ==
    \/ \E i \in Slots : StartTask(i)
    \/ \E i \in Slots : EthRecvTx(i, WalletWorld)
    \/ \E i \in Slots : EthRecvToken(i, WalletWorld)
    \/ \E i \in Slots : EthRecvBalance(i, WalletWorld)
    \/ \E i \in Slots : EthRecvPrice(i, WalletWorld)
    \/ \E i \in Slots : SolRecvBalance(i, WalletWorld)
    \/ \E i \in Slots : SolRecvSigs(i, WalletWorld)
    \/ \E i \in Slots : SolRecvPrice1(i, WalletWorld)
    \/ \E i \in Slots : SolRecvFeed(i, WalletWorld)
    \/ \E i \in Slots : SolRecvJupiter(i, WalletWorld)
    \/ \E i \in Slots : SolRecvDas(i, WalletWorld)
    \/ \E i \in Slots : SolRecvPrice2(i, WalletWorld)
    \/ ReturnBatch

SpecWallet == InitWallet /\ [][NextWallet]_vars

(***************************************************************************)
(* SpecMeta: the detailed analysis of one Solana address whose feed holds  *)
(* 0..MaxMints tokens without a symbol.                                    *)
(***************************************************************************)
InitMeta == InitBatch({<<SolA>>}, {0}, {TRUE})

NextMeta ==
    \/ \E i \in Slots : StartTask(i)
    \/ \E i \in Slots : SolRecvBalance(i, MetaWorld)
    \/ \E i \in Slots : SolRecvSigs(i, MetaWorld)
    \/ \E i \in Slots : SolRecvPrice1(i, MetaWorld)
    \/ \E i \in Slots : SolRecvFeed(i, MetaWorld)
    \/ \E i \in Slots : SolRecvJupiter(i, MetaWorld)
    \/ \E i \in Slots : SolRecvDas(i, MetaWorld)
    \/ ReturnBatch

SpecMeta == InitMeta /\ [][NextMeta]_vars

(***************************************************************************)
(* Spec: analyze_multiple_wallets on a batch of three addresses, the tasks *)
(* interleaving at their awaits; each provider answers with one payload or *)
(* fails.                                                                  *)
(***************************************************************************)
Batches ==
    {<<EthMixed, Malformed, SolA>>,
     <<EthMixed, Malformed, EthLower>>,
     <<SolA, EthOther, SolA>>}

BatchWorld ==
    [txlist |-> {Resp("ok", <<[timeStamp |-> TicksPerDay, value |-> 4,
                               to |-> EthLower, from |-> EthOther],
                              [timeStamp |-> TicksPerDay, value |-> 1,
                               to |-> EthOther, from |-> EthLower]>>)}
                \cup Failures,
     tokentx |-> {Resp("ok", <<TokenTx(TicksPerDay, "T1", "AAA", 50, 1,
                                       EthLower, EthOther)>>),
                  Resp("exception", <<>>)},
     balance |-> {Resp("ok", 3), Resp("status0", 0)},
     price |-> {[kind |-> "ok", usd |-> 2000], [kind |-> "ok", usd |-> 2500],
                [kind |-> "non200", usd |-> 0]},
     solbalance |-> {Resp("ok", 5), Resp("exception", 0)},
     sigs |-> {Resp("ok", <<[blockTime |-> TicksPerDay]>>)},
     feed |-> {Resp("ok", <<SolTx(TicksPerDay,
                                  <<TokenTr(Mint(1), 7, SolOther, SolA, NoSymbol)>>,
                                  <<NativeTr(4, SolOther, SolA)>>, "SWAP")>>),
               Resp("non200", <<>>)},
     meta |-> MetaResps,
     nows |-> {ClockStart}]

Init == InitBatch(Batches, {1}, {TRUE})

Next ==
    \/ \E i \in Slots : StartTask(i)
    \/ \E i \in Slots : EthRecvTx(i, BatchWorld)
    \/ \E i \in Slots : EthRecvToken(i, BatchWorld)
    \/ \E i \in Slots : EthRecvBalance(i, BatchWorld)
    \/ \E i \in Slots : EthRecvPrice(i, BatchWorld)
    \/ \E i \in Slots : SolRecvBalance(i, BatchWorld)
    \/ \E i \in Slots : SolRecvSigs(i, BatchWorld)
    \/ \E i \in Slots : SolRecvPrice1(i, BatchWorld)
    \/ \E i \in Slots : SolRecvFeed(i, BatchWorld)
    \/ \E i \in Slots : SolRecvJupiter(i, BatchWorld)
    \/ \E i \in Slots : SolRecvDas(i, BatchWorld)
    \/ \E i \in Slots : SolRecvPrice2(i, BatchWorld)
    \/ ReturnBatch

Spec == Init /\ [][Next]_vars

(***************************************************************************)
(* The pure functions applied on their own: arg is drawn by the initial    *)
(* predicate, out is None until the function has been applied.             *)
(***************************************************************************)
IdleBatch ==
    /\ addresses = <<>>
    /\ period_days = 0
    /\ helius = FALSE
    /\ task = <<>>
    /\ price_cache = [k \in CacheKeys |-> NotCached]
    /\ upstream = [k \in CacheKeys |-> 0]
    /\ finished = <<>>
    /\ results = Pending

\* an address of n characters that starts with the characters of prefix
MkAddr(prefix, n) ==
    IF n <= Len(prefix) THEN SubSeq(prefix, 1, n) ELSE prefix \o Pad(n - Len(prefix), "a")

AddrPrefixes == {<<"0", "x">>, <<"0", "X">>, <<"x", "0">>, <<"0", "0">>, <<"a", "b">>}

InitClassify ==
    /\ IdleBatch
    /\ arg \in {[fn |-> "detect_chain", address |-> MkAddr(p, n)] :
                  p \in AddrPrefixes, n \in 0..MaxAddrLen}
    /\ out = None

Classify ==
    /\ IsNone(out)
    /\ arg.fn = "detect_chain"
    /\ out' = [fn |-> "detect_chain", chain |-> detect_chain(arg.address)]
    /\ UNCHANGED <<batchVars, arg>>

SpecClassify == InitClassify /\ [][Classify]_vars

\* s rearranged by the permutation p of its indices
Permuted(s, p) == [k \in 1..Len(s) |-> s[p[k]]]

Perms(n) == {p \in [1..n -> 1..n] : \A a, b \in 1..n : p[a] = p[b] => a = b}

\* the engine's events all lie in the window of one day before ClockStart
EnginePeriods == {1}

EngineTimes == {TicksPerDay - 1, TicksPerDay}

\* transfers of two tokens to (5 or 3 units) and from (2 units) the address; the
\* payload carries the symbol in some transfers and not in others
SymbolFor(tok) == IF tok = "T1" THEN "ONE" ELSE "TWO"

EngineTokenTxs ==
    {TokenTx(ts, tok, IF ts = TicksPerDay THEN SymbolFor(tok) ELSE Absent,
             IF ts = TicksPerDay THEN 50 ELSE 30, 1,
             EthLower, EthOther) : ts \in EngineTimes, tok \in {"T1", "T2"}}
    \cup {TokenTx(ts, tok, IF ts = TicksPerDay THEN Absent ELSE SymbolFor(tok), 2, 0,
                  EthOther, EthLower) : ts \in EngineTimes, tok \in {"T1", "T2"}}

\* the positions A: +10, B: +25, C: -5 (received minus sent)
ExampleTxs ==
    <<TokenTx(TicksPerDay, "A", "A", 10, 0, EthLower, EthOther),
      TokenTx(TicksPerDay, "B", "B", 25, 0, EthLower, EthOther),
      TokenTx(TicksPerDay, "C", "C", 5, 0, EthOther, EthLower)>>

\* the positions A: +10, B: +10, C: -5 (received minus sent)
TieTxs ==
    <<TokenTx(TicksPerDay, "A", "A", 10, 0, EthLower, EthOther),
      TokenTx(TicksPerDay, "B", "B", 10, 0, EthLower, EthOther),
      TokenTx(TicksPerDay, "C", "C", 5, 0, EthOther, EthLower)>>

SymbolOfMint(m) == IF m = Mint(1) THEN SymSym ELSE SymTok

EngineSolTxs ==
    {SolTx(ts, <<TokenTr(m, 5, SolOther, SolA, IF ts = TicksPerDay THEN SymbolOfMint(m) ELSE NoSymbol)>>,
           <<NativeTr(4, SolOther, SolA)>>, "SWAP") :
        ts \in EngineTimes, m \in {Mint(1), Mint(2)}}
    \cup {SolTx(ts, <<TokenTr(m, 2, SolA, SolOther, IF ts = TicksPerDay THEN NoSymbol ELSE SymbolOfMint(m))>>,
                <<NativeTr(1, SolA, SolOther)>>, "TRANSFER") :
            ts \in EngineTimes, m \in {Mint(1), Mint(2)}}

EngineArg(fn, address, l, p, d) ==
    [fn |-> fn, address |-> address, txs |-> l, perm |-> p, days |-> d, now |-> ClockStart]

InitEngine ==
    /\ IdleBatch
    /\ out = None
    /\ \E d \in EnginePeriods :
         \/ \E l \in SeqsUpTo(EngineTokenTxs, MaxEvents) \cup {ExampleTxs, TieTxs} :
              \E p \in Perms(Len(l)) : arg = EngineArg("evm", EthMixed, l, p, d)
         \/ \E l \in SeqsUpTo(EngineSolTxs, MaxEvents) :
              \E p \in Perms(Len(l)) : arg = EngineArg("sol", SolA, l, p, d)

\* calculate_token_pnl on the transfers as given (a, pa) and rearranged (b, pb)
ApplyEvm ==
    /\ IsNone(out)
    /\ arg.fn = "evm"
    /\ LET txs2 == Permuted(arg.txs, arg.perm) IN
       out' = [fn |-> "evm",
               a |-> calculate_token_pnl(arg.txs, arg.address, arg.days, arg.now),
               pa |-> TokenPositions(arg.txs, arg.address, arg.days, arg.now),
               b |-> calculate_token_pnl(txs2, arg.address, arg.days, arg.now),
               pb |-> TokenPositions(txs2, arg.address, arg.days, arg.now)]
    /\ UNCHANGED <<batchVars, arg>>

\* the accumulation and selection of the detailed Solana analysis on the feed
\* as given (a, ma) and rearranged (b, mb)
ApplySol ==
    /\ IsNone(out)
    /\ arg.fn = "sol"
    /\ LET txs2 == Permuted(arg.txs, arg.perm)
           a == SolAccumulate(arg.txs, arg.address, arg.days, arg.now)
           b == SolAccumulate(txs2, arg.address, arg.days, arg.now)
       IN out' = [fn |-> "sol", a |-> a, ma |-> SolMostProfitable(a.token_balances),
                  b |-> b, mb |-> SolMostProfitable(b.token_balances)]
    /\ UNCHANGED <<batchVars, arg>>

NextEngine == ApplyEvm \/ ApplySol

SpecEngine == InitEngine /\ [][NextEngine]_vars

(***************************************************************************)
(* The claims.                                                             *)
(***************************************************************************)
Applied(fn) == ~IsNone(out) /\ out.fn = fn

Done(i) == i \in DOMAIN task /\ task[i].pc = "done"

DoneAs(i, kind) == Done(i) /\ task[i].result.kind = kind

HasPrefix0x(a) == Len(a) >= 2 /\ SubSeq(a, 1, 2) = <<"0", "x">>

\* C1: detect_chain answers 'ethereum' exactly for the strings of 42
\* characters that start with '0x', 'solana' exactly for the strings of 32 to
\* 44 characters that do not start with '0x', and 'unknown' exactly for all
\* other strings.
C1_DetectChain ==
    Applied("detect_chain") =>
        LET a == arg.address
            eth == Len(a) = 42 /\ HasPrefix0x(a)
            sol == Len(a) \in 32..44 /\ ~HasPrefix0x(a)
        IN /\ out.chain \in {"ethereum", "solana", "unknown"}
           /\ (out.chain = "ethereum") <=> eth
           /\ (out.chain = "solana") <=> sol
           /\ (out.chain = "unknown") <=> (~eth /\ ~sol)

\* a string of 42 characters with the prefix '0X' has been classified: solana
C1_Witness ==
    /\ Applied("detect_chain")
    /\ Len(arg.address) = 42
    /\ SubSeq(arg.address, 1, 2) = <<"0", "X">>
    /\ out.chain = "solana"

ErrorMessages ==
    {"Unknown chain or invalid address", "Failed to fetch transactions", "exception"}

PricesServed(W) == {PriceReturned(resp) : resp \in W.price}

\* what the analysis of address i returns from the responses its own requests
\* received and the price it was given
SoloMatches(i, W) ==
    LET t == task[i]
        r == t.result
    IN CASE r.kind = "ethereum" ->
              /\ detect_chain(addresses[i]) = "ethereum"
              /\ \E now2 \in NowsFrom(W, t.now) :
                    r = EthResult(t, period_days, t.price, t.now, now2)
              /\ t.price \in PricesServed(W)
         [] r.kind = "solana" ->
              /\ detect_chain(addresses[i]) = "solana"
              /\ r = SolResult(t, period_days, r.detailed)
              /\ t.price \in PricesServed(W)
              /\ \/ IsNone(r.detailed)
                 \/ /\ r.detailed = DetailedResult(t.st, t.price2)
                    /\ t.price2 \in PricesServed(W)
         [] OTHER -> FALSE

\* C2: analyze_multiple_wallets returns, never raises; its list has one
\* result per address, at the address's index; an address of unknown chain
\* has an error result; every result that is not an error is the result of
\* that address's own analysis, computed from the responses to its own
\* requests and a price the oracle serves, whatever happened to the other
\* addresses of the batch.
C2_BatchIsolation ==
    results.state # "pending" =>
        /\ results.state = "returned"
        /\ Len(results.list) = Len(addresses)
        /\ \A i \in DOMAIN addresses :
              LET r == results.list[i] IN
              /\ r = task[i].result
              /\ task[i].address = addresses[i]
              /\ detect_chain(addresses[i]) = "unknown" => IsError(r)
              /\ IF IsError(r)
                 THEN r.error \in ErrorMessages
                 ELSE r.address = addresses[i] /\ SoloMatches(i, BatchWorld)

\* the batch returned; the second address failed, the first and the third
\* have results, and the third task completed before the first
C2_Witness ==
    /\ results.state = "returned"
    /\ Len(results.list) = 3
    /\ IsError(results.list[2])
    /\ ~IsError(results.list[1])
    /\ ~IsError(results.list[3])
    /\ finished[1] = 3
    /\ results.list[1] # results.list[3]

\* the cut-off of task i's window, from the clock it read
CutoffOf(i) == Cutoff(task[i].now, period_days)

CountFrom(s, Time(_), cutoff) == Cardinality({k \in 1..Len(s) : Time(s[k]) >= cutoff})

\* C3: wherever an analysis filters by the window, exactly the events at or
\* after the cut-off are counted: the native transactions and the token
\* transfers of an Ethereum result, the signatures of a Solana result.
C3_WindowInclusive ==
    \A i \in Slots :
        /\ DoneAs(i, "ethereum") =>
              LET Ts(tx) == tx.timeStamp IN
              /\ task[i].result.total_transactions =
                    CountFrom(task[i].transactions, Ts, CutoffOf(i))
              /\ task[i].result.total_token_transfers =
                    CountFrom(task[i].token_txs, Ts, CutoffOf(i))
        /\ DoneAs(i, "solana") =>
              LET Bt(sig) == sig.blockTime IN
              task[i].result.total_transactions =
                  CountFrom(task[i].signatures, Bt, CutoffOf(i))

SetMax(S) == CHOOSE m \in S : \A x \in S : x <= m

\* C4: with at least one position in the window, most_profitable is not None
\* and its pnl is the greatest of the positions' received minus sent amounts.
C4_MaxInboundMinusOutbound ==
    (Applied("evm") /\ out.pa # <<>>) =>
        /\ ~IsNone(out.a.most_profitable)
        /\ out.a.most_profitable.pnl =
              SetMax({out.pa[k].buy_value - out.pa[k].sell_value : k \in 1..Len(out.pa)})

\* C5: the Solana most-profitable token is None when no token has inbound
\* > 0, and otherwise carries the greatest inbound - outbound among the
\* tokens with inbound > 0 and the symbol of a token with inbound > 0 and
\* that profit.
C5_SolanaEligible ==
    Applied("sol") =>
        LET bs == out.a.token_balances
            E == {k \in 1..Len(bs) : bs[k].in > 0}
        IN IF E = {}
           THEN IsNone(out.ma)
           ELSE /\ ~IsNone(out.ma)
                /\ out.ma.pnl = SetMax({bs[k].in - bs[k].out : k \in E})
                /\ \E k \in E : /\ bs[k].in - bs[k].out = out.ma.pnl
                                /\ bs[k].symbol = out.ma.token

\* tokens were only sent out in the window, and the result is None
C5_Witness ==
    /\ Applied("sol")
    /\ out.a.token_balances # <<>>
    /\ \A k \in 1..Len(out.a.token_balances) :
          out.a.token_balances[k].in = 0 /\ out.a.token_balances[k].out > 0
    /\ IsNone(out.ma)

EvmSums(ps) == {<<ps[k].token, ps[k].buy_value, ps[k].sell_value>> : k \in 1..Len(ps)}

SolSums(bs) == {<<bs[k].mint, bs[k].in, bs[k].out>> : k \in 1..Len(bs)}

KeyOf(i) == IF detect_chain(task[i].address) = "ethereum" THEN "eth_None" ELSE "sol_None"

GotPrice(t) == t.price_resp # "none"

\* C7 as claimed: for each key at most one upstream price request is made,
\* and all calls for one key return the same value, also the calls of
\* concurrent tasks of one batch.
C7_OneUpstreamCall ==
    /\ \A k \in CacheKeys : upstream[k] <= 1
    /\ \A i, j \in DOMAIN task :
          (KeyOf(i) = KeyOf(j) /\ GotPrice(task[i]) /\ GotPrice(task[j]))
              => task[i].price = task[j].price

\* C7 as amended: a price call made while the cache holds an entry for its
\* key makes no upstream request and returns that entry (a request is sent
\* only while the key has no entry; a call whose request is already in flight
\* returns what its own response says).
C7_CachedCallsHit ==
    [][/\ \A k \in CacheKeys :
             upstream'[k] # upstream[k] => ~PriceCached(price_cache, k)
       /\ \A i \in DOMAIN task :
             /\ (PriceCached(price_cache, KeyOf(i)) /\ ~GotPrice(task[i])
                    /\ task[i].inflight # "price" /\ GotPrice(task'[i]))
                   => /\ task'[i].price_resp = "cache"
                      /\ task'[i].price = price_cache[KeyOf(i)]
             /\ (PriceCached(price_cache, KeyOf(i)) /\ task[i].price2_resp = "none"
                    /\ task[i].inflight # "price" /\ task'[i].price2_resp # "none")
                   => /\ task'[i].price2_resp = "cache"
                      /\ task'[i].price2 = price_cache[KeyOf(i)]]_vars

\* two Ethereum tasks of one batch have their price, the second from the
\* cache, after a single upstream request
C7_Witness ==
    /\ upstream["eth_None"] = 1
    /\ \E i, j \in DOMAIN task :
          /\ i # j
          /\ task[i].price_resp = "ok"
          /\ task[j].price_resp = "cache"
          /\ DoneAs(i, "ethereum")
          /\ DoneAs(j, "ethereum")

PriceFailures == {"non200", "nofield", "exception"}

\* inbound minus outbound over the transactions the adapter kept
NetFlowKept(txs, address, cutoff) ==
    LET Signed(tx) == (IF Lower(tx.to) = Lower(address) THEN tx.value ELSE 0)
                      - (IF Lower(tx.from) = Lower(address) THEN tx.value ELSE 0)
        kept == {k \in 1..Len(txs) : AdapterKeeps(txs[k], cutoff)}
        sum[S \in SUBSET kept] ==
            IF S = {} THEN 0
            ELSE LET k == CHOOSE x \in S : TRUE IN Signed(txs[k]) + sum[S \ {k}]
    IN sum[kept]

\* C8: a price request that fails (a status other than 200, a payload
\* without the price field, an exception) makes the oracle return 0 and raises
\* nothing: the analysis completes without an error, with the balance and the
\* net flow of the provider's data and with the USD fields 0.
C8_PriceFailureDegrades ==
    \A i \in Slots :
        /\ (i \in DOMAIN task /\ task[i].price_resp \in PriceFailures) =>
              /\ task[i].price = 0
              /\ task[i].pc # "raised"
              /\ Done(i) => ~IsError(task[i].result)
              /\ DoneAs(i, "ethereum") =>
                    /\ task[i].result.current_balance = task[i].eth_balance
                    /\ task[i].result.eth_pnl =
                          NetFlowKept(task[i].transactions, task[i].address, CutoffOf(i))
                    /\ task[i].result.current_balance_usd = 0
                    /\ task[i].result.eth_pnl_usd = 0
              /\ DoneAs(i, "solana") =>
                    /\ task[i].result.current_balance = task[i].sol_balance
                    /\ task[i].result.current_balance_usd = 0
        /\ (i \in DOMAIN task /\ task[i].price2_resp \in PriceFailures) =>
              /\ task[i].price2 = 0
              /\ DoneAs(i, "solana")
              /\ ~IsNone(task[i].result.detailed)
              /\ task[i].result.detailed.sol_pnl = task[i].st.sol_in - task[i].st.sol_out
              /\ task[i].result.detailed.sol_pnl_usd = 0

\* the price request of an Ethereum analysis raised; the result has a balance
\* and a net flow, and USD fields of 0
C8_Witness ==
    \E i \in DOMAIN task :
        /\ DoneAs(i, "ethereum")
        /\ task[i].price_resp = "exception"
        /\ task[i].result.current_balance > 0
        /\ task[i].result.eth_pnl > 0
        /\ task[i].result.eth_pnl_usd = 0

\* C9: eth_pnl is the sum of the values of the native transactions at or
\* after the cut-off whose 'to' is the address minus the sum of those whose
\* 'from' is the address (case-insensitive), and eth_pnl_usd is eth_pnl times
\* the ETH price.
C9_EthPnl ==
    \A i \in Slots :
        DoneAs(i, "ethereum") =>
            LET t == task[i]
                InWindow(tx) == tx.timeStamp >= CutoffOf(i)
                ToMe(tx) == InWindow(tx) /\ Lower(tx.to) = Lower(t.address)
                FromMe(tx) == InWindow(tx) /\ Lower(tx.from) = Lower(t.address)
            IN /\ t.result.eth_pnl = SumValues(SelectSeq(t.transactions, ToMe), 1)
                                     - SumValues(SelectSeq(t.transactions, FromMe), 1)
               /\ t.result.eth_pnl_usd = t.result.eth_pnl * t.price

\* the symbols of the tokens that were unresolved after the feed and are not
\* among the first MetadataCap of them
BeyondCap(t) ==
    {k \in 1..Len(t.st.token_balances) :
        \E n \in (MetadataCap + 1)..Len(t.unknown_tokens) :
            t.unknown_tokens[n] = t.st.token_balances[k].mint}

\* C10 as claimed: at most 10 metadata lookups are made in one call, and every
\* unresolved token beyond the cap ends with a truncated-address placeholder.
C10_BeyondCapTruncated ==
    \A i \in Slots :
        /\ i \in DOMAIN task => task[i].meta_calls <= MetadataCap
        /\ (DoneAs(i, "solana") /\ ~IsNone(task[i].st)) =>
              \A k \in BeyondCap(task[i]) :
                  task[i].st.token_balances[k].symbol =
                      Truncated(task[i].st.token_balances[k].mint)

\* C10 as amended: at most 10 metadata lookups are made in one call; every
\* unresolved token beyond the cap ends with the symbol 'UNKNOWN', and every
\* one within the cap with the symbol the lookup returned (a resolved symbol
\* or the truncated address).
C10_CapAndUnknown ==
    \A i \in Slots :
        /\ i \in DOMAIN task => task[i].meta_calls <= MetadataCap
        /\ (DoneAs(i, "solana") /\ ~IsNone(task[i].st)) =>
              LET t == task[i]
                  bs == t.st.token_balances
              IN /\ t.meta_calls = Min(Len(t.unknown_tokens), MetadataCap)
                 /\ \A k \in BeyondCap(t) : bs[k].symbol = SymUnknown
                 /\ \A k \in 1..Len(bs) : \A n \in 1..Len(t.lookups) :
                       t.lookups[n] = bs[k].mint =>
                           bs[k].symbol \in {SymTok, Truncated(bs[k].mint)}

\* an analysis with more unresolved tokens than the cap has completed
C10_Witness ==
    \E i \in DOMAIN task :
        /\ DoneAs(i, "solana")
        /\ ~IsNone(task[i].st)
        /\ Len(task[i].unknown_tokens) > MetadataCap
        /\ task[i].meta_calls = MetadataCap

FeedNoData == {"non200", "exception", "empty"}

\* C11: a Solana analysis that got as far as the detailed tier, and found it
\* unavailable (no credential) or without data (a status other than 200, an
\* empty or non-list payload, an exception), returns a result that is not an
\* error, has the basic fields, and carries none of the detailed fields; a
\* result whose feed gave data carries them, also when the P&L is zero.
C11_BasicTierOnly ==
    \A i \in Slots :
        (Done(i) /\ detect_chain(task[i].address) = "solana" /\ GotPrice(task[i])) =>
            LET t == task[i]
                r == t.result
            IN /\ r.kind = "solana"
               /\ r.current_balance = t.sol_balance
               /\ r.total_transactions =
                     Len(PeriodSigs(t.signatures, CutoffOf(i)))
               /\ r.last_active = IF t.signatures # <<>>
                                  THEN t.signatures[1].blockTime ELSE NoTime
               /\ (~helius \/ t.feed_resp \in FeedNoData) => IsNone(r.detailed)
               /\ ~helius => t.feed_resp = "none"
               /\ (helius /\ t.feed_resp = "ok") =>
                     /\ ~IsNone(r.detailed)
                     /\ DOMAIN r.detailed = {"sol_pnl", "sol_pnl_usd", "swap_count",
                                             "most_profitable", "active_tokens"}

\* without a credential the analysis returned the basic result
C11_Witness ==
    \E i \in DOMAIN task :
        /\ DoneAs(i, "solana")
        /\ ~helius
        /\ task[i].result.current_balance > 0
        /\ task[i].result.total_transactions > 0
        /\ IsNone(task[i].result.detailed)

SubFetchFailures == {"status0", "exception"}

\* C12: once the transaction list has been fetched, a failure of the token
\* transfer fetch or of the balance fetch (a non-success status, a malformed
\* payload or a network exception) does not fail the Ethereum analysis: the
\* result is not an error, has no token transfers, trades or positions
\* respectively a zero balance, and its native flow is computed as usual.
C12_SubFetchDegrades ==
    \A i \in Slots :
        (Done(i) /\ (task[i].token_resp \in SubFetchFailures
                        \/ task[i].bal_resp \in SubFetchFailures)) =>
            LET t == task[i]
                r == t.result
            IN /\ ~IsError(r)
               /\ r.kind = "ethereum"
               /\ t.token_resp \in SubFetchFailures =>
                     /\ r.total_token_transfers = 0
                     /\ r.token_pnl.total_trades = 0
                     /\ r.token_pnl.positions = 0
               /\ t.bal_resp \in SubFetchFailures => r.current_balance = 0
               /\ r.eth_pnl = NetFlowKept(t.transactions, t.address, CutoffOf(i))

IsSolanaTask(i) == i \in DOMAIN task /\ detect_chain(task[i].address) = "solana"

StageRank(stage) ==
    CASE stage = "balance" -> 1
      [] stage = "signatures" -> 2
      [] stage = "feed" -> 3
      [] stage = "metadata" -> 4
      [] stage = "price" -> 5
      [] OTHER -> 0

\* C13 as claimed: the requests of one Solana analysis are sent in the order
\* balance, signature list, enhanced feed, metadata lookups, price; no request
\* of a later stage is sent before one of an earlier stage.
C13_PriceLast ==
    \A i \in Slots :
        IsSolanaTask(i) =>
            \A a, b \in 1..Len(task[i].stages) :
                a < b => StageRank(task[i].stages[a]) < StageRank(task[i].stages[b])

SolanaOrder == <<"balance", "signatures", "price", "feed", "metadata", "price">>

\* s[i..] can be read off full[j..] in order, skipping entries of full
RECURSIVE EmbedsFrom(_, _, _, _)
EmbedsFrom(s, i, full, j) ==
    IF i > Len(s) THEN TRUE
    ELSE IF j > Len(full) THEN FALSE
    ELSE IF s[i] = full[j] THEN EmbedsFrom(s, i + 1, full, j + 1)
    ELSE EmbedsFrom(s, i, full, j + 1)

\* C13 as amended: the requests of one Solana analysis are sent one at a time
\* in the order balance, signature list, price, enhanced feed, metadata
\* lookups, price; the first two are always the balance and the signature
\* list, the feed is requested only after the first price call has returned,
\* and a price request is left out only when the call returned from the cache.
C13_PriceBeforeFeed ==
    \A i \in Slots :
        IsSolanaTask(i) =>
            LET t == task[i]
                n == Len(t.stages)
            IN /\ EmbedsFrom(t.stages, 1, SolanaOrder, 1)
               /\ n >= 1 => t.stages[1] = "balance"
               /\ n >= 2 => t.stages[2] = "signatures"
               /\ t.inflight # "none" => (n >= 1 /\ t.stages[n] = StageOf(t.inflight))
               /\ (\E k \in 1..n : t.stages[k] = "feed") =>
                     /\ GotPrice(t)
                     /\ t.price_resp # "cache" => (n >= 3 /\ t.stages[3] = "price")
               /\ (Done(i) /\ t.price2_resp \notin {"none", "cache"}) => t.stages[n] = "price"

\* a Solana analysis completed after sending requests of all six stages
C13_Witness ==
    \E i \in DOMAIN task :
        /\ DoneAs(i, "solana")
        /\ task[i].stages = SolanaOrder

SetMin(S) == CHOOSE m \in S : \A x \in S : m <= x

\* the index in txs of the first transfer of the token
FirstTransfer(txs, Token(_), token) == SetMin({n \in 1..Len(txs) : Token(txs[n]) = token})

\* C14: when several eligible positions have the same, greatest net profit
\* (received minus sent), most_profitable is the first of them in the order
\* of the position map, which is the order in which the tokens first appear
\* in the input (EVM: every position is eligible; Solana: those with
\* inbound > 0).
C14_FirstOfTies ==
    /\ Applied("evm") =>
          LET ps == out.pa
              Profit(k) == ps[k].buy_value - ps[k].sell_value
              Tok(tx) == tx.contractAddress
              best == {k \in 1..Len(ps) : \A j \in 1..Len(ps) : Profit(j) <= Profit(k)}
          IN /\ \A j, k \in 1..Len(ps) :
                   j < k => FirstTransfer(arg.txs, Tok, ps[j].token)
                               < FirstTransfer(arg.txs, Tok, ps[k].token)
             /\ Cardinality(best) >= 2 =>
                   /\ ~IsNone(out.a.most_profitable)
                   /\ out.a.most_profitable.token = ps[SetMin(best)].symbol
                   /\ out.a.most_profitable.pnl = Profit(SetMin(best))
    /\ Applied("sol") =>
          LET bs == out.a.token_balances
              Profit(k) == bs[k].in - bs[k].out
              E == {k \in 1..Len(bs) : bs[k].in > 0}
              best == {k \in E : \A j \in E : Profit(j) <= Profit(k)}
          IN Cardinality(best) >= 2 =>
                /\ ~IsNone(out.ma)
                /\ out.ma.token = bs[SetMin(best)].symbol
                /\ out.ma.pnl = Profit(SetMin(best))

\* the symbols the transfers of a token carried (EVM), and those the
\* transfers of a mint carried (Solana)
EvmCarried(txs, token) ==
    {txs[n].tokenSymbol : n \in {m \in 1..Len(txs) :
        txs[m].contractAddress = token /\ txs[m].tokenSymbol # Absent}}

SolCarried(txs, mint) ==
    {tr.symbol : tr \in {txs[n].tokenTransfers[1] : n \in {m \in 1..Len(txs) :
        /\ txs[m].tokenTransfers # <<>>
        /\ txs[m].tokenTransfers[1].mint = mint
        /\ txs[m].tokenTransfers[1].symbol # NoSymbol}}}

\* C15 (EVM): after the accumulation a position has the placeholder symbol
\* only if no in-window transfer of its token carried a symbol, and otherwise
\* a symbol that one of them carried.
C15_EvmSymbolLastKnownGood ==
    Applied("evm") =>
        \A k \in 1..Len(out.pa) :
            LET carried == EvmCarried(arg.txs, out.pa[k].token) IN
            IF carried = {} THEN out.pa[k].symbol = "UNKNOWN"
                            ELSE out.pa[k].symbol \in carried

\* C15 (Solana): the same for the token balances of the detailed analysis.
C15_SolSymbolLastKnownGood ==
    Applied("sol") =>
        \A k \in 1..Len(out.a.token_balances) :
            LET b == out.a.token_balances[k]
                carried == SolCarried(arg.txs, b.mint)
            IN IF carried = {} THEN b.symbol = SymUnknown
                               ELSE b.symbol \in carried

\* C15: a position's symbol is last-known-good on the EVM path and on the
\* Solana path: a later transfer with a symbol resolves a placeholder, and a
\* transfer without a symbol never replaces a resolved symbol.
C15_SymbolLastKnownGood == C15_EvmSymbolLastKnownGood /\ C15_SolSymbolLastKnownGood

\* C16 (EVM): no position's last trade is earlier than its first, and the
\* hold_days of most_profitable is not negative.
C16_EvmHoldDays ==
    Applied("evm") =>
        /\ \A k \in 1..Len(out.pa) : out.pa[k].first_trade <= out.pa[k].last_trade
        /\ ~IsNone(out.a.most_profitable) => out.a.most_profitable.hold_days >= 0

\* C16 (Solana): the same for the token balances that have both times.
C16_SolHoldDays ==
    Applied("sol") =>
        /\ \A k \in 1..Len(out.a.token_balances) :
              LET b == out.a.token_balances[k] IN
              (b.first_time # NoTime /\ b.last_time # NoTime) => b.first_time <= b.last_time
        /\ ~IsNone(out.ma) => out.ma.hold_days >= 0

\* C16: the hold_days reported for the most-profitable token is never
\* negative, whatever the order of the transfer events, on both paths.
C16_HoldDaysNotNegative == C16_EvmHoldDays /\ C16_SolHoldDays

\* C17: in every Ethereum result, total_token_transfers equals
\* token_pnl.total_trades, also when the clock advances between the adapter's
\* reading and the engine's.
C17_TransfersEqualTrades ==
    \A i \in Slots :
        DoneAs(i, "ethereum") =>
            task[i].result.total_token_transfers = task[i].result.token_pnl.total_trades

==========================================================================
